---- MODULE Spec2Model ----
(***************************************************************************)
(* Model of src/app.py: the manifest converter.  An uploaded workbook is   *)
(* read into a table, PRODUCT DESCRIPTION / HSCODE are split on commas and *)
(* exploded into one row per pair, WEIGHT and TOTAL DECLARE VALUE are      *)
(* distributed per Tracking Number, and the rows are mapped onto the       *)
(* template columns.  The upload handler shows the table or the error.     *)
(*                                                                         *)
(* Representation.                                                         *)
(*  - A text is a sequence of tokens; a token is the separator ",", the    *)
(*    blank " ", a digit, or a run of characters holding neither a comma   *)
(*    nor a blank ("Shoes", "nan", "Guangzhou").                           *)
(*  - A cell is NaN (missing), a number n/d (floats are modelled as exact  *)
(*    rationals, so float rounding error is abstracted to zero) or a text. *)
(*  - A table has an ordered list of columns and a list of rows; a row     *)
(*    has its index label idx, its cells, and the history field src: the   *)
(*    position of the source row it was derived from (the index label      *)
(*    until the merge of line 37 resets the index).                        *)
(***************************************************************************)
EXTENDS Integers, Sequences, FiniteSets, TLC

VARIABLES df, df_expanded, result, pc, err, message, preview, download

vars == <<df, df_expanded, result, pc, err, message, preview, download>>

----------------------------------------------------------------------------
(* Bounds of the model *)
MaxRows == 2
MaxLen == 3
MaxMissing == 2

----------------------------------------------------------------------------
(* Cells *)
NaN == [k |-> "nan", n |-> 0, d |-> 1, s |-> <<>>]
Num(n, d) == [k |-> "num", n |-> n, d |-> d, s |-> <<>>]
Str(s) == [k |-> "str", n |-> 0, d |-> 1, s |-> s]

IsNaN(c) == c.k = "nan"
IsNum(c) == c.k = "num"
IsStr(c) == c.k = "str"

(* equality of two cells, numbers compared as rationals *)
CellEq(a, b) ==
    IF IsNum(a) /\ IsNum(b) THEN a.n * b.d = b.n * a.d ELSE a = b

Range(f) == {f[x] : x \in DOMAIN f}

----------------------------------------------------------------------------
(* Text functions *)

(* str.split(","): the pieces between the commas; always at least one *)
RECURSIVE Split(_)
Split(s) ==
    IF \A i \in 1..Len(s) : s[i] # ","
    THEN <<s>>
    ELSE LET i == CHOOSE j \in 1..Len(s) :
                     s[j] = "," /\ \A h \in 1..(j - 1) : s[h] # ","
         IN  <<SubSeq(s, 1, i - 1)>> \o Split(SubSeq(s, i + 1, Len(s)))

(* astype(str) of a cell: a missing cell becomes the text "nan", a whole  *)
(* number its digits                                                      *)
astype_str(c) ==
    IF IsNaN(c) THEN <<"nan">>
    ELSE IF IsStr(c) THEN c.s
    ELSE <<ToString(c.n)>>

(* astype(str).str.split(",") of one cell, lines 22-23 *)
SplitCell(c) == Split(astype_str(c))

DigitVal ==
    ("0" :> 0) @@ ("1" :> 1) @@ ("2" :> 2) @@ ("3" :> 3) @@ ("4" :> 4) @@
    ("5" :> 5) @@ ("6" :> 6) @@ ("7" :> 7) @@ ("8" :> 8) @@ ("9" :> 9)

RECURSIVE ParseDigits(_)
ParseDigits(s) ==
    IF s = <<>> THEN 0
    ELSE 10 * ParseDigits(SubSeq(s, 1, Len(s) - 1)) + DigitVal[s[Len(s)]]

(* pd.to_numeric(errors="coerce") of one cell: numbers stay, texts of     *)
(* digits parse, anything else becomes missing                            *)
to_numeric(c) ==
    IF IsNum(c) THEN c
    ELSE IF IsStr(c) /\ c.s # <<>> /\ \A i \in 1..Len(c.s) : c.s[i] \in DOMAIN DigitVal
         THEN Num(ParseDigits(c.s), 1)
         ELSE NaN

(* division of a cell by a positive count; missing propagates *)
Div(c, cnt) == IF IsNum(c) THEN Num(c.n, c.d * cnt) ELSE NaN

Min(a, b) == IF a <= b THEN a ELSE b

----------------------------------------------------------------------------
(* Static tables of step 4 *)
province_abbr ==
    (<<"Beijing">> :> <<"BJ">>) @@ (<<"Tianjin">> :> <<"TJ">>) @@
    (<<"Shanghai">> :> <<"SH">>) @@ (<<"Chongqing">> :> <<"CQ">>) @@
    (<<"Guangdong">> :> <<"GD">>) @@ (<<"Guangxi">> :> <<"GX">>) @@
    (<<"Guizhou">> :> <<"GZ">>) @@ (<<"Yunnan">> :> <<"YN">>) @@
    (<<"Hainan">> :> <<"HI">>) @@ (<<"Sichuan">> :> <<"SC">>) @@
    (<<"Jiangsu">> :> <<"JS">>) @@ (<<"Zhejiang">> :> <<"ZJ">>) @@
    (<<"Anhui">> :> <<"AH">>) @@ (<<"Fujian">> :> <<"FJ">>) @@
    (<<"Jiangxi">> :> <<"JX">>) @@ (<<"Shandong">> :> <<"SD">>) @@
    (<<"Henan">> :> <<"HA">>) @@ (<<"Hubei">> :> <<"HB">>) @@
    (<<"Hunan">> :> <<"HN">>) @@ (<<"Hebei">> :> <<"HE">>) @@
    (<<"Shanxi">> :> <<"SX">>) @@ (<<"Inner", " ", "Mongolia">> :> <<"NM">>) @@
    (<<"Shaanxi">> :> <<"SN">>) @@ (<<"Gansu">> :> <<"GS">>) @@
    (<<"Qinghai">> :> <<"QH">>) @@ (<<"Ningxia">> :> <<"NX">>) @@
    (<<"Xinjiang">> :> <<"XJ">>) @@ (<<"Tibet">> :> <<"XZ">>) @@
    (<<"Heilongjiang">> :> <<"HL">>) @@ (<<"Jilin">> :> <<"JL">>) @@
    (<<"Liaoning">> :> <<"LN">>)

city_to_province ==
    (<<"Guangzhou">> :> <<"Guangdong">>) @@ (<<"Shenzhen">> :> <<"Guangdong">>) @@
    (<<"Foshan">> :> <<"Guangdong">>) @@ (<<"Beijing">> :> <<"Beijing">>) @@
    (<<"Shanghai">> :> <<"Shanghai">>) @@ (<<"Tianjin">> :> <<"Tianjin">>) @@
    (<<"Chengdu">> :> <<"Sichuan">>) @@ (<<"Wuhan">> :> <<"Hubei">>) @@
    (<<"Hangzhou">> :> <<"Zhejiang">>) @@ (<<"Nanjing">> :> <<"Jiangsu">>)

template_cols == <<
    "consignor_item_id", "display_id", "receptacle_id", "tracking_number", "sender_name",
    "sender_orgname", "sender_address1", "sender_address2", "sender_district", "sender_city",
    "sender_state", "sender_zip5", "sender_zip4", "sender_country", "sender_phone", "sender_email",
    "sender_url", "recipient_name", "recipient_orgname", "recipient_address1", "recipient_address2",
    "recipient_district", "recipient_city", "recipient_state", "recipient_zip5", "recipient_zip4",
    "recipient_country", "recipient_phone", "recipient_email", "recipient_addr_type", "return_name",
    "return_orgname", "return_address1", "return_address2", "return_district", "return_city",
    "return_state", "return_zip5", "return_zip4", "return_country", "return_phone", "return_email",
    "mail_type", "pieces", "weight", "length", "width", "height", "girth", "value", "machinable",
    "po_box_flag", "gift_flag", "commercial_flag", "customs_quantity_units", "dutiable",
    "duty_pay_by", "product", "description", "url", "sku", "country_of_origin", "manufacturer",
    "harmonization_code", "unit_value", "quantity", "total_value", "total_weight" >>

col_map ==
    ("receptacle_id" :> "Bag ID") @@ ("consignor_item_id" :> "BG Number") @@
    ("tracking_number" :> "Tracking Number") @@ ("sender_name" :> "SHIPPER") @@
    ("sender_address1" :> "SHIPPER ADDRESS") @@ ("sender_city" :> "CITY NAME SHIPPER") @@
    ("sender_country" :> "COUNTRY CODE SHIPPER") @@ ("recipient_name" :> "Consignee Name") @@
    ("recipient_address1" :> "Consignee Address") @@ ("recipient_city" :> "Consignee City") @@
    ("recipient_state" :> "Consignee Province") @@ ("recipient_zip5" :> "Consignee Post Code") @@
    ("recipient_country" :> "Country of Destination") @@ ("weight" :> "WEIGHT") @@
    ("value" :> "TOTAL DECLARE VALUE") @@ ("description" :> "PRODUCT DESCRIPTION") @@
    ("harmonization_code" :> "HSCODE") @@ ("unit_value" :> "TOTAL DECLARE VALUE") @@
    ("total_value" :> "TOTAL DECLARE VALUE") @@ ("total_weight" :> "WEIGHT")

(* the destination columns set to the constant 1, line 86 *)
unit_cols == {"pieces", "length", "width", "height", "girth", "quantity"}

(* Series.map(dict) of one cell: a key that is not in the dict is missing *)
map_dict(c, dict) ==
    IF IsStr(c) /\ c.s \in DOMAIN dict THEN Str(dict[c.s]) ELSE NaN

(* DataFrame.head(50), line 97 *)
PreviewRows == 50
head(frame, n) ==
    [frame EXCEPT !.rows = SubSeq(frame.rows, 1, Min(n, Len(frame.rows)))]

----------------------------------------------------------------------------
(* Tables *)
PD == "PRODUCT DESCRIPTION"
HS == "HSCODE"
TN == "Tracking Number"
WT == "WEIGHT"
TDV == "TOTAL DECLARE VALUE"
QTY == "TOTAL QTY"
CNT == "_count"

NoFrame == [columns |-> <<>>, rows |-> <<>>]
NoError == [type |-> "none", key |-> ""]
KeyError(key) == [type |-> "KeyError", key |-> key]

HasCol(frame, col) == \E i \in 1..Len(frame.columns) : frame.columns[i] = col

(* frame[col] = values: every row gets its value; a new column is appended *)
SetCol(row, col, val) ==
    [row EXCEPT !.cells = [c \in (DOMAIN row.cells) \cup {col} |->
                              IF c = col THEN val ELSE row.cells[c]]]

AddCol(columns, col) ==
    IF \E i \in 1..Len(columns) : columns[i] = col THEN columns
    ELSE Append(columns, col)

(* frame.drop(columns=col) *)
DropCol(row, col) ==
    [row EXCEPT !.cells = [c \in (DOMAIN row.cells) \ {col} |-> row.cells[c]]]

NotCnt(c) == c # CNT

----------------------------------------------------------------------------
(* Step 2, lines 22-30: explode PRODUCT DESCRIPTION and HSCODE *)

(* line 24: min(len(p), len(h)) of one source row *)
min_len(row) == Min(Len(SplitCell(row.cells[PD])), Len(SplitCell(row.cells[HS])))

(* a slice from the end of the list, p[-n:] *)
Truncate_tail(list, n) == SubSeq(list, Len(list) - Min(n, Len(list)) + 1, Len(list))

(* lines 25-26: p[:n] *)
Truncate(list, n) == SubSeq(list, 1, Min(n, Len(list)))

(* line 27: df.index.repeat(min_len): position i of the source, lens[i] times *)
RECURSIVE index_repeat(_, _)
index_repeat(lens, i) ==
    IF i > Len(lens) THEN <<>>
    ELSE [j \in 1..lens[i] |-> i] \o index_repeat(lens, i + 1)

(* lines 28-29: [i for sub in column for i in sub] *)
RECURSIVE Flatten(_)
Flatten(lists) ==
    IF lists = <<>> THEN <<>> ELSE Head(lists) \o Flatten(Tail(lists))

(* rows taken by position modulo the table instead of by repeated label *)
loc_shifted(frame, rep) ==
    [j \in 1..Len(rep) |->
        LET r == frame.rows[(rep[j] % Len(frame.rows)) + 1]
        IN  [idx |-> r.idx, src |-> rep[j], cells |-> r.cells]]

(* line 27: df.loc[labels]: the source row of each repeated label *)
loc(frame, rep) ==
    [j \in 1..Len(rep) |->
        LET r == frame.rows[rep[j]]
        IN  [idx |-> r.idx, src |-> rep[j], cells |-> r.cells]]

explode(frame) ==
    LET N     == Len(frame.rows)
        lens  == [i \in 1..N |-> min_len(frame.rows[i])]
        descs == [i \in 1..N |-> Truncate(SplitCell(frame.rows[i].cells[PD]), lens[i])]
        codes == [i \in 1..N |-> Truncate(SplitCell(frame.rows[i].cells[HS]), lens[i])]
        rep   == index_repeat(lens, 1)
        flatD == Flatten(descs)
        flatH == Flatten(codes)
        taken == loc(frame, rep)
    IN  [columns |-> AddCol(frame.columns, QTY),
         rows |-> [j \in 1..Len(rep) |->
                     SetCol(SetCol(SetCol(taken[j], PD, Str(flatD[j])),
                                   HS, Str(flatH[j])),
                            QTY, Num(1, 1))]]

----------------------------------------------------------------------------
(* Step 3, lines 33-40: distribute WEIGHT and TOTAL DECLARE VALUE *)

(* lines 33-35: coerce the numeric columns that exist *)
coerce(frame) ==
    [frame EXCEPT !.rows = [j \in 1..Len(frame.rows) |->
        [frame.rows[j] EXCEPT !.cells = [c \in DOMAIN frame.rows[j].cells |->
            IF c \in {WT, TDV} THEN to_numeric(frame.rows[j].cells[c])
            ELSE frame.rows[j].cells[c]]]]]

(* the source rows of each group counted instead of its item rows *)
groupby_nunique(rows) ==
    LET keys == {rows[j].cells[TN] : j \in 1..Len(rows)} \ {NaN}
    IN  [t \in keys |-> Cardinality({rows[j].src : j \in {h \in 1..Len(rows) : rows[h].cells[TN] = t}})]

(* the group of the missing key kept, as with dropna=False *)
groupby_size_keepna(rows) ==
    LET keys == {rows[j].cells[TN] : j \in 1..Len(rows)}
    IN  [t \in keys |-> Cardinality({j \in 1..Len(rows) : rows[j].cells[TN] = t})]

(* line 36: groupby("Tracking Number").size(); a missing key forms no group *)
groupby_size(rows) ==
    LET keys == {rows[j].cells[TN] : j \in 1..Len(rows)} \ {NaN}
    IN  [t \in keys |-> Cardinality({j \in 1..Len(rows) : rows[j].cells[TN] = t})]

HasCount(counts, row) == row.cells[TN] \in DOMAIN counts

(* line 37: inner merge with the counts; the index is reset *)
merge(frame, counts) ==
    LET kept == SelectSeq(frame.rows, LAMBDA r : HasCount(counts, r))
    IN  [columns |-> Append(frame.columns, CNT),
         rows |-> [j \in 1..Len(kept) |->
                     SetCol([kept[j] EXCEPT !.idx = j - 1], CNT,
                            Num(counts[kept[j].cells[TN]], 1))]]

(* the value of the first row of the group, missing or not *)
transform_head(rows, col, j) ==
    LET grp == {i \in 1..Len(rows) : rows[i].cells[TN] = rows[j].cells[TN]}
    IN  rows[CHOOSE i \in grp : \A h \in grp : i <= h].cells[col]

(* groupby("Tracking Number")[col].transform("first") for the row at j:   *)
(* the first non-missing value of col in the row's group                  *)
transform_first(rows, col, j) ==
    LET grp == {i \in 1..Len(rows) :
                   rows[i].cells[TN] = rows[j].cells[TN] /\ ~IsNaN(rows[i].cells[col])}
    IN  IF grp = {} THEN NaN
        ELSE rows[CHOOSE i \in grp : \A h \in grp : i <= h].cells[col]

(* lines 38, 39: frame[col] = transform("first") / frame["_count"] *)
distribute(frame, col) ==
    [frame EXCEPT !.rows = [j \in 1..Len(frame.rows) |->
        SetCol(frame.rows[j], col,
               Div(transform_first(frame.rows, col, j), frame.rows[j].cells[CNT].n))]]

(* line 40: drop the _count column *)
drop_count(frame) ==
    [columns |-> SelectSeq(frame.columns, NotCnt),
     rows |-> [j \in 1..Len(frame.rows) |-> DropCol(frame.rows[j], CNT)]]

----------------------------------------------------------------------------
(* Step 4, lines 81-91: map to the template columns *)

(* the source columns that line 85 reads, in template order *)
mapped_sources ==
    LET mapped == SelectSeq(template_cols, LAMBDA c : c \in DOMAIN col_map)
    IN  [i \in 1..Len(mapped) |-> col_map[mapped[i]]]

(* lines 82-89: the value of one destination column of one row *)
template_cell(row, col) ==
    IF col \in DOMAIN col_map THEN row.cells[col_map[col]]
    ELSE IF col \in unit_cols THEN Num(1, 1)
    ELSE Str(<<>>)

(* the province of the city, not abbreviated *)
sender_province(city) == map_dict(city, city_to_province)

(* line 90: sender_city mapped to its province and then to the abbreviation *)
sender_state(city) == map_dict(map_dict(city, city_to_province), province_abbr)

project(frame) ==
    [columns |-> template_cols,
     rows |-> [j \in 1..Len(frame.rows) |->
        LET base == [c \in Range(template_cols) |-> template_cell(frame.rows[j], c)]
        IN  [idx |-> frame.rows[j].idx, src |-> frame.rows[j].src,
             cells |-> [base EXCEPT !["sender_state"] = sender_state(base["sender_city"])]]]]

----------------------------------------------------------------------------
(* The uploaded workbooks the model draws from *)

SourceCols == <<
    "Bag ID", "BG Number", "Tracking Number", "SHIPPER", "SHIPPER ADDRESS",
    "CITY NAME SHIPPER", "COUNTRY CODE SHIPPER", "Consignee Name", "Consignee Address",
    "Consignee City", "Consignee Province", "Consignee Post Code",
    "Country of Destination", "WEIGHT", "TOTAL DECLARE VALUE", "PRODUCT DESCRIPTION",
    "HSCODE", "TOTAL QTY", "REMARK" >>

(* the columns a workbook of the model may lack *)
DroppableCols ==
    {TN, PD, HS, WT, TDV, QTY, "REMARK", "BG Number", "Bag ID"}

(* the sender city of the row at position i *)
CityOf(i) ==
    CASE i % 4 = 1 -> Str(<<"Guangzhou">>)
      [] i % 4 = 2 -> Str(<<"Paris">>)
      [] i % 4 = 3 -> NaN
      [] OTHER     -> Str(<<"Chengdu">>)

(* a source row: the varied cells are given, every other cell is a text   *)
(* that names the row                                                     *)
SourceRow(i, tn, desc, code, wt, val) ==
    [idx |-> i - 1, src |-> i,
     cells |-> [c \in Range(SourceCols) |->
        CASE c = TN  -> tn
          [] c = PD  -> desc
          [] c = HS  -> code
          [] c = WT  -> wt
          [] c = TDV -> val
          [] c = QTY -> Num(5, 1)
          [] c = "CITY NAME SHIPPER" -> CityOf(i)
          [] OTHER   -> Str(<<"r", ToString(i)>>)]]

(* the table without the columns in missing *)
Without(frame, missing) ==
    [columns |-> SelectSeq(frame.columns, LAMBDA c : c \notin missing),
     rows |-> [j \in 1..Len(frame.rows) |->
                 [frame.rows[j] EXCEPT !.cells =
                     [c \in (DOMAIN frame.rows[j].cells) \ missing |-> frame.rows[j].cells[c]]]]]

(* all texts of at most n tokens over an alphabet *)
RECURSIVE Texts(_, _)
Texts(alphabet, n) ==
    IF n = 0 THEN {<<>>}
    ELSE LET shorter == Texts(alphabet, n - 1)
         IN  shorter \cup {Append(t, a) : t \in shorter, a \in alphabet}

DescCells == {NaN} \cup {Str(t) : t \in Texts({"A", ",", " "}, MaxLen)}
CodeCells == {NaN} \cup {Str(t) : t \in Texts({"1", ","}, MaxLen)}
TrackingCells == {NaN, Str(<<"T1">>), Str(<<"T2">>)}

(* one source row, every short description against every short code *)
TextWorkbook(tn, desc, code) ==
    [columns |-> SourceCols,
     rows |-> <<SourceRow(1, tn, desc, code, Num(2, 1), Num(30, 1))>>]

(* description and code cells of the rows of a manifest *)
ItemCells == {
    <<Str(<<"Shoes", ",", " ", "Hat">>), Str(<<"6403", ",", " ", "6505">>)>>,
    <<Str(<<"A", ",", "B", ",", "C">>), Str(<<"1", ",", "2", ",", "3", ",", "4", ",", "5">>)>> }

(* weight and declared value cells of the rows of a manifest *)
NumericCells == {
    <<Num(1, 1), Num(1, 1)>>,
    <<Num(2, 1), NaN>>,
    <<Str(<<"x">>), Str(<<"3", "0">>)>>,
    <<NaN, Num(2, 1)>> }

RowChoices == TrackingCells \X ItemCells \X NumericCells

(* n source rows with the chosen cells, all columns present *)
ManifestWorkbook(n, ch) ==
    [columns |-> SourceCols,
     rows |-> [i \in 1..n |->
                 SourceRow(i, ch[i][1], ch[i][2][1], ch[i][2][2], ch[i][3][1], ch[i][3][2])]]

(* the worked examples: mismatched lengths, an empty cell, blank pieces *)
ExampleCells == {
    <<Str(<<"A", ",", " ", "B", ",", " ", "C">>), Str(<<"1", ",", " ", "2">>)>>,
    <<Str(<<>>), Str(<<"1", ",", "2">>)>>,
    <<Str(<<"A", ",", " ", ",", "B">>), Str(<<"1", ",", "2">>)>>,
    <<NaN, NaN>> }

ExampleWorkbook(ex) ==
    [columns |-> SourceCols,
     rows |-> <<SourceRow(1, Str(<<"T1">>), ex[1], ex[2], Num(2, 1), Num(30, 1)),
                SourceRow(2, Str(<<"T2">>), Str(<<"A">>), Str(<<"1">>), Num(1, 1), Num(1, 1))>>]

BaseWorkbook ==
    [columns |-> SourceCols,
     rows |-> <<SourceRow(1, Str(<<"T1">>), Str(<<"A", ",", "B">>), Str(<<"1", ",", "2">>),
                          Num(2, 1), Num(30, 1)),
                SourceRow(2, Str(<<"T2">>), Str(<<"C">>), Str(<<"3">>), Num(1, 1), Num(5, 1))>>]

(* the sets of one to MaxMissing droppable columns *)
MissingSets == {m \in SUBSET DroppableCols : m # {} /\ Cardinality(m) <= MaxMissing}

(* the workbooks of the model: one row with every short description and   *)
(* code; up to MaxRows rows of manifest cells; the worked examples; the   *)
(* base workbook without some columns                                     *)
Uploaded(wb) ==
    \/ \E tn \in {NaN, Str(<<"T1">>)}, desc \in DescCells, code \in CodeCells :
          wb = TextWorkbook(tn, desc, code)
    \/ \E n \in 0..MaxRows : \E ch \in [1..n -> RowChoices] :
          wb = ManifestWorkbook(n, ch)
    \/ \E ex \in ExampleCells : wb = ExampleWorkbook(ex)
    \/ \E missing \in MissingSets : wb = Without(BaseWorkbook, missing)

----------------------------------------------------------------------------
(* The converter and the upload handler *)

(* line 19: the first sheet has been read into df *)
Init ==
    /\ Uploaded(df)
    /\ df_expanded = NoFrame
    /\ result = NoFrame
    /\ pc = "read"
    /\ err = NoError
    /\ message = <<>>
    /\ preview = NoFrame
    /\ download = NoFrame

Raise(e) ==
    /\ err' = e
    /\ pc' = "raised"

(* lines 22-30 *)
Explode ==
    /\ pc = "read"
    /\ IF ~HasCol(df, PD) THEN Raise(KeyError(PD)) /\ UNCHANGED df_expanded
       ELSE IF ~HasCol(df, HS) THEN Raise(KeyError(HS)) /\ UNCHANGED df_expanded
       ELSE /\ df_expanded' = explode(df)
            /\ pc' = "exploded"
            /\ UNCHANGED err
    /\ UNCHANGED <<df, result, message, preview, download>>

(* lines 33-40 *)
Redistribute ==
    /\ pc = "exploded"
    /\ LET coerced == coerce(df_expanded)
           merged  == merge(coerced, groupby_size(coerced.rows))
       IN  IF ~HasCol(coerced, TN)
           THEN Raise(KeyError(TN)) /\ df_expanded' = coerced
           ELSE IF ~HasCol(merged, WT)
           THEN Raise(KeyError(WT)) /\ df_expanded' = merged
           ELSE IF ~HasCol(merged, TDV)
           THEN Raise(KeyError(TDV)) /\ df_expanded' = distribute(merged, WT)
           ELSE /\ df_expanded' = drop_count(distribute(distribute(merged, WT), TDV))
                /\ pc' = "redistributed"
                /\ UNCHANGED err
    /\ UNCHANGED <<df, result, message, preview, download>>

(* lines 81-91 *)
MapToTemplate ==
    /\ pc = "redistributed"
    /\ LET absent == SelectSeq(mapped_sources, LAMBDA c : ~HasCol(df_expanded, c))
       IN  IF absent # <<>>
           THEN Raise(KeyError(Head(absent))) /\ UNCHANGED result
           ELSE /\ result' = project(df_expanded)
                /\ pc' = "returned"
                /\ UNCHANGED err
    /\ UNCHANGED <<df, df_expanded, message, preview, download>>

(* lines 95-110: success message, preview of the first rows, download *)
ShowConverted ==
    /\ pc = "returned"
    /\ message' = <<"Conversion complete!">>
    /\ preview' = head(result, PreviewRows)
    /\ download' = result
    /\ pc' = "done"
    /\ UNCHANGED <<df, df_expanded, result, err>>

(* lines 111-112: the error text is shown, nothing else *)
ShowError ==
    /\ pc = "raised"
    /\ message' = <<"Error: ", err.key>>
    /\ pc' = "failed"
    /\ UNCHANGED <<df, df_expanded, result, err, preview, download>>

Next ==
    \/ Explode
    \/ Redistribute
    \/ MapToTemplate
    \/ ShowConverted
    \/ ShowError

Spec == Init /\ [][Next]_vars

----------------------------------------------------------------------------
(* Vocabulary of the properties *)

(* the converter has returned its table *)
Returned == pc \in {"returned", "done"}

(* the item rows exist: after the explosion, before and after the merge *)
Expanded == pc \in {"exploded", "redistributed", "returned", "done"}

Sources == 1..Len(df.rows)

(* the rows of a table derived from the source row at position i, in order *)
ItemsOf(frame, i) == SelectSeq(frame.rows, LAMBDA r : r.src = i)

(* the lists the program forms from the cells of the source row at i *)
description_list(i) == Split(astype_str(df.rows[i].cells[PD]))
code_list(i) == Split(astype_str(df.rows[i].cells[HS]))
pair_count(i) == Min(Len(description_list(i)), Len(code_list(i)))

TrackingPresent(i) == ~IsNaN(df.rows[i].cells[TN])

RECURSIVE SumSeq(_)
SumSeq(q) == IF q = <<>> THEN 0 ELSE Head(q) + SumSeq(Tail(q))

(* the item rows at positions 1..n carry the first n descriptions and codes *)
Paired(items, descs, codes, n, dcol, hcol) ==
    /\ Len(items) = n
    /\ \A p \in 1..Min(n, Len(items)) :
          /\ items[p].cells[dcol] = Str(descs[p])
          /\ items[p].cells[hcol] = Str(codes[p])

(* C1 as stated: every source row yields min(a,b) output rows, the i-th   *)
(* carrying description_list[i] and code_list[i], and nothing beyond.     *)
C1_EverySourceRow ==
    Returned =>
        \A i \in Sources :
            Paired(ItemsOf(result, i), description_list(i), code_list(i),
                   pair_count(i), "description", "harmonization_code")

(* C1 amended: every source row whose Tracking Number is present yields   *)
(* exactly min(a,b) output rows, the i-th carrying description_list[i]    *)
(* and code_list[i]; entries beyond min(a,b) appear in no row of it.      *)
C1_PairingTruncation ==
    Returned =>
        \A i \in Sources :
            TrackingPresent(i) =>
                Paired(ItemsOf(result, i), description_list(i), code_list(i),
                       pair_count(i), "description", "harmonization_code")

(* a returned table from a row of 3 descriptions and 5 codes *)
C1_Witness ==
    /\ pc = "done"
    /\ \E i \in Sources :
          /\ TrackingPresent(i)
          /\ Len(description_list(i)) = 3
          /\ Len(code_list(i)) = 5
          /\ Len(ItemsOf(download, i)) = 3

----------------------------------------------------------------------------
(* The parse of the specification: split on commas, trim, discard empties *)

RECURSIVE lstrip(_)
lstrip(t) == IF t # <<>> /\ Head(t) = " " THEN lstrip(Tail(t)) ELSE t

RECURSIVE rstrip(_)
rstrip(t) ==
    IF t # <<>> /\ t[Len(t)] = " " THEN rstrip(SubSeq(t, 1, Len(t) - 1)) ELSE t

strip(t) == rstrip(lstrip(t))

NonEmpty(t) == t # <<>>

parse_list(c) ==
    IF IsNaN(c) THEN <<>>
    ELSE LET pieces == Split(astype_str(c))
         IN  SelectSeq([p \in 1..Len(pieces) |-> strip(pieces[p])], NonEmpty)

(* C2: a source row whose description or code cell parses to an empty     *)
(* list (missing, empty, only commas and blanks) contributes no output    *)
(* row.                                                                   *)
C2_DropOnEmpty ==
    Returned =>
        \A i \in Sources :
            (parse_list(df.rows[i].cells[PD]) = <<>> \/ parse_list(df.rows[i].cells[HS]) = <<>>)
                => ItemsOf(result, i) = <<>>

(* C4: the output rows of a source row carry the trimmed, non-empty       *)
(* comma-separated pieces of its cells, paired after the empty pieces are *)
(* discarded.                                                             *)
C4_PieceNormalisation ==
    Returned =>
        \A i \in Sources :
            TrackingPresent(i) =>
                LET descs == parse_list(df.rows[i].cells[PD])
                    codes == parse_list(df.rows[i].cells[HS])
                IN  Paired(ItemsOf(result, i), descs, codes,
                           Min(Len(descs), Len(codes)), "description", "harmonization_code")

----------------------------------------------------------------------------
(* C3: a table that lacks some of Tracking Number, PRODUCT DESCRIPTION,   *)
(* HSCODE fails with an error that lists exactly the missing columns,     *)
(* before any expansion, and no table is shown or offered.  The class of  *)
(* the error is left open here: the formula asks only for what it names.  *)
MissingRequired == {c \in {TN, PD, HS} : ~HasCol(df, c)}

C3_MissingColumnFatal ==
    MissingRequired # {} =>
        /\ df_expanded = NoFrame
        /\ result = NoFrame
        /\ preview = NoFrame
        /\ download = NoFrame
        /\ pc # "read" =>
              /\ pc \in {"raised", "failed"}
              /\ err.type # "none"
              /\ {err.key} = MissingRequired

----------------------------------------------------------------------------
(* Arithmetic on number cells *)
Abs(x) == IF x < 0 THEN -x ELSE x

RECURSIVE Gcd(_, _)
Gcd(a, b) == IF b = 0 THEN a ELSE Gcd(b, a % b)

Norm(c) == LET g == Gcd(Abs(c.n), Abs(c.d)) IN IF g = 0 THEN c ELSE Num(c.n \div g, c.d \div g)

Add(a, b) == Norm(Num(a.n * b.d + b.n * a.d, a.d * b.d))

(* the sum of a column of number cells *)
RECURSIVE SumCol(_, _)
SumCol(rows, col) ==
    IF rows = <<>> THEN Num(0, 1) ELSE Add(Norm(Head(rows).cells[col]), SumCol(Tail(rows), col))

(* |a - b| <= k / scale *)
Within(a, b, k, scale) ==
    Abs(a.n * b.d - b.n * a.d) * scale <= k * a.d * b.d

(* n / d rounded to the nearest integer, ties to even *)
RoundDiv(n, d) ==
    LET q == n \div d
        r == n % d
    IN  IF 2 * r < d THEN q
        ELSE IF 2 * r > d THEN q + 1
        ELSE IF q % 2 = 0 THEN q ELSE q + 1

(* a non-negative number cell rounded to the decimal places of scale *)
Round(c, scale) == Num(RoundDiv(c.n * scale, c.d), scale)

TrackingKeys == {df.rows[i].cells[TN] : i \in Sources} \ {NaN}

(* the declared values of a column among the source rows of a tracking number *)
Declared(t, col) ==
    {to_numeric(df.rows[i].cells[col]) : i \in {h \in Sources : df.rows[h].cells[TN] = t}}

(* the output rows of a tracking number *)
OutRows(t) == SelectSeq(result.rows, LAMBDA r : r.cells["tracking_number"] = t)

(* every row of rows holds total / k in column col, rounded when asked *)
Shares(rows, col, total, k, scale, rounded) ==
    /\ \A p \in 1..Len(rows) :
          CellEq(rows[p].cells[col],
                 IF rounded THEN Round(Num(total.n, total.d * k), scale)
                 ELSE Num(total.n, total.d * k))
    /\ Within(SumCol(rows, col), total, k, scale)

WeightScale == 10 ^ 5
ValueScale == 10 ^ 2

(* C5 as stated: when every source row of a tracking number declares the  *)
(* same weight W and it has k >= 1 output rows, each of them holds W/k    *)
(* rounded to 5 decimal places and they sum to W within k x 10^-5; the    *)
(* same for the declared value with 2 decimal places.                     *)
C5_RoundedShares ==
    Returned =>
        \A t \in TrackingKeys :
            /\ \A W \in Declared(t, WT) :
                  (Declared(t, WT) = {W} /\ IsNum(W) /\ Len(OutRows(t)) >= 1)
                      => Shares(OutRows(t), "weight", W, Len(OutRows(t)), WeightScale, TRUE)
            /\ \A V \in Declared(t, TDV) :
                  (Declared(t, TDV) = {V} /\ IsNum(V) /\ Len(OutRows(t)) >= 1)
                      => Shares(OutRows(t), "value", V, Len(OutRows(t)), ValueScale, TRUE)

(* C5 amended: when the known weights of the source rows of a tracking    *)
(* number are one value W and it has k >= 1 output rows, each of them     *)
(* holds W/k, not rounded, and they sum to W within k x 10^-5; the same   *)
(* for the declared value within k x 10^-2.                               *)
C5_WeightConservation ==
    Returned =>
        \A t \in TrackingKeys :
            /\ \A W \in Declared(t, WT) \ {NaN} :
                  (Declared(t, WT) \ {NaN} = {W} /\ Len(OutRows(t)) >= 1)
                      => /\ Shares(OutRows(t), "weight", W, Len(OutRows(t)), WeightScale, FALSE)
                         /\ Shares(OutRows(t), "total_weight", W, Len(OutRows(t)), WeightScale, FALSE)
            /\ \A V \in Declared(t, TDV) \ {NaN} :
                  (Declared(t, TDV) \ {NaN} = {V} /\ Len(OutRows(t)) >= 1)
                      => /\ Shares(OutRows(t), "value", V, Len(OutRows(t)), ValueScale, FALSE)
                         /\ Shares(OutRows(t), "unit_value", V, Len(OutRows(t)), ValueScale, FALSE)
                         /\ Shares(OutRows(t), "total_value", V, Len(OutRows(t)), ValueScale, FALSE)

(* a tracking number of weight 1 and value 1 shown with three rows of 1/3 *)
C5_Witness ==
    /\ pc = "done"
    /\ \E t \in TrackingKeys :
          /\ Declared(t, WT) = {Num(1, 1)}
          /\ Declared(t, TDV) = {Num(1, 1)}
          /\ Len(OutRows(t)) = 3
          /\ \A p \in 1..3 : CellEq(download.rows[p].cells["weight"], Num(1, 3))

----------------------------------------------------------------------------
(* the first known value of a column among the source rows of a tracking  *)
(* number, in source order; missing when there is none                    *)
FirstDeclared(t, col) ==
    LET known == {i \in Sources :
                     df.rows[i].cells[TN] = t /\ ~IsNaN(to_numeric(df.rows[i].cells[col]))}
    IN  IF known = {} THEN NaN
        ELSE to_numeric(df.rows[CHOOSE i \in known : \A h \in known : i <= h].cells[col])

(* the item rows of a tracking number over all of its source rows *)
ItemTotal(t) ==
    SumSeq([i \in Sources |-> IF df.rows[i].cells[TN] = t THEN pair_count(i) ELSE 0])

IsShare(c, total, k) ==
    IF IsNaN(total) THEN IsNaN(c) ELSE IsNum(c) /\ c.n * total.d * k = total.n * c.d

(* C6: every output row holds the first non-missing numeric weight (and   *)
(* declared value) among the source rows of its tracking number, in       *)
(* source order, divided by the number of item rows of that tracking      *)
(* number over all of them; unparseable counts as missing; no known value *)
(* gives missing.                                                         *)
C6_FirstSeenAggregate ==
    Returned =>
        \A j \in 1..Len(result.rows) :
            LET r == result.rows[j]
                t == r.cells["tracking_number"]
            IN  /\ IsShare(r.cells["weight"], FirstDeclared(t, WT), ItemTotal(t))
                /\ IsShare(r.cells["total_weight"], FirstDeclared(t, WT), ItemTotal(t))
                /\ IsShare(r.cells["value"], FirstDeclared(t, TDV), ItemTotal(t))
                /\ IsShare(r.cells["unit_value"], FirstDeclared(t, TDV), ItemTotal(t))
                /\ IsShare(r.cells["total_value"], FirstDeclared(t, TDV), ItemTotal(t))

(* two source rows of one tracking number: the first has no known weight, *)
(* the second has one, and their known declared values differ             *)
C6_Witness ==
    /\ pc = "done"
    /\ Len(df.rows) >= 2
    /\ TrackingPresent(1)
    /\ df.rows[1].cells[TN] = df.rows[2].cells[TN]
    /\ IsNaN(to_numeric(df.rows[1].cells[WT]))
    /\ IsNum(to_numeric(df.rows[2].cells[WT]))
    /\ IsNum(to_numeric(df.rows[1].cells[TDV]))
    /\ IsNum(to_numeric(df.rows[2].cells[TDV]))
    /\ to_numeric(df.rows[1].cells[TDV]) # to_numeric(df.rows[2].cells[TDV])
    /\ Len(download.rows) >= 4

----------------------------------------------------------------------------
(* the columns that are carried over unchanged *)
CarriedCols == Range(df.columns) \ {PD, HS, QTY, WT, TDV}

(* C7: every item row holds, in every column other than description,      *)
(* code, quantity, weight and declared value, the value of its source     *)
(* row, before and after the merge of the counts, and so does every       *)
(* output row in the columns mapped from them.                            *)
C7_CarryOver ==
    /\ Expanded =>
          \A j \in 1..Len(df_expanded.rows) :
              \A c \in CarriedCols :
                  df_expanded.rows[j].cells[c] = df.rows[df_expanded.rows[j].src].cells[c]
    /\ Returned =>
          \A j \in 1..Len(result.rows) :
              \A c \in {x \in DOMAIN col_map : col_map[x] \in CarriedCols} :
                  result.rows[j].cells[c] = df.rows[result.rows[j].src].cells[col_map[c]]

(* after the merge: two source rows with different cells, each with       *)
(* several item rows                                                      *)
C7_Witness ==
    /\ pc = "redistributed"
    /\ Len(df.rows) >= 2
    /\ Len(ItemsOf(df_expanded, 1)) >= 2
    /\ Len(ItemsOf(df_expanded, 2)) >= 2
    /\ df.rows[1].cells["REMARK"] # df.rows[2].cells["REMARK"]

----------------------------------------------------------------------------
(* C8: a table with the three required columns that lacks WEIGHT and/or   *)
(* TOTAL DECLARE VALUE is converted without an error.                     *)
MissingCols == Range(SourceCols) \ Range(df.columns)

C8_OptionalNumericColumns ==
    (MissingCols # {} /\ MissingCols \subseteq {WT, TDV}) => pc \notin {"raised", "failed"}

----------------------------------------------------------------------------
(* the abbreviation of the region of a city, missing when a lookup misses *)
Abbreviation(city) ==
    IF IsStr(city) /\ \E c \in DOMAIN city_to_province : c = city.s
    THEN IF \E pv \in DOMAIN province_abbr : pv = city_to_province[city.s]
         THEN Str(province_abbr[city_to_province[city.s]])
         ELSE NaN
    ELSE NaN

(* C9: the output has the template columns in template order and one row  *)
(* per redistributed item row in the same order; a mapped column holds    *)
(* the item row's value of its source column, the structural columns hold *)
(* 1, sender_state holds the abbreviation of the region of sender_city or *)
(* missing, every other column holds the empty string.                    *)
C9_TemplateProjection ==
    Returned =>
        /\ result.columns = template_cols
        /\ Len(result.rows) = Len(df_expanded.rows)
        /\ \A j \in 1..Len(result.rows) :
              LET out  == result.rows[j].cells
                  item == df_expanded.rows[j].cells
              IN  /\ DOMAIN out = Range(template_cols)
                  /\ \A c \in DOMAIN out :
                        IF c \in DOMAIN col_map THEN out[c] = item[col_map[c]]
                        ELSE IF c \in {"pieces", "length", "width", "height", "girth", "quantity"}
                             THEN out[c] = Num(1, 1)
                        ELSE IF c = "sender_state"
                             THEN out[c] = Abbreviation(item["CITY NAME SHIPPER"])
                        ELSE out[c] = Str(<<>>)

(* a shown table with a sender city that is found and one that is not *)
C9_Witness ==
    /\ pc = "done"
    /\ \E j \in 1..Len(download.rows) : download.rows[j].cells["sender_state"] = Str(<<"GD">>)
    /\ \E j \in 1..Len(download.rows) :
          /\ download.rows[j].cells["sender_city"] = Str(<<"Paris">>)
          /\ download.rows[j].cells["sender_state"] = NaN

----------------------------------------------------------------------------
(* C10: the output has as many rows as the pair counts of the source rows *)
(* with a Tracking Number add up to; the item rows of a source row        *)
(* without one exist after the explosion and are gone from the output.    *)
C10_RowCount ==
    /\ pc = "exploded" =>
          \A i \in Sources : Len(ItemsOf(df_expanded, i)) = pair_count(i)
    /\ Returned =>
          /\ Len(result.rows) =
                SumSeq([i \in Sources |-> IF TrackingPresent(i) THEN pair_count(i) ELSE 0])
          /\ \A i \in Sources : ~TrackingPresent(i) => ItemsOf(result, i) = <<>>

(* a shown table from a row without a Tracking Number and a row with one *)
C10_Witness ==
    /\ pc = "done"
    /\ \E i \in Sources : ~TrackingPresent(i) /\ pair_count(i) >= 2
    /\ \E i \in Sources : TrackingPresent(i)
    /\ Len(download.rows) >= 2

====
